---- MODULE Spec2Model ----
(***************************************************************************)
(* A model of LruWeightedCache (src/src/lib.rs): a hash index from keys to *)
(* heap nodes, a doubly linked recency list bounded by two sentinels, and  *)
(* the weight-based admission and ejection protocol.                       *)
(*                                                                         *)
(* Memory is modelled explicitly: a node is a heap slot, the raw prev/next *)
(* pointers are slot numbers, and a Box that is dropped leaves the heap.   *)
(* Machine integers (usize) are modelled by representatives: a small x>=0  *)
(* stands for x, a value x<0 stands for 2^64 + x (the result of a wrapped  *)
(* subtraction) and Half + x stands for 2^63 + x, so that wrap-around and  *)
(* unsigned comparison are exact for all values within a small distance of *)
(* 0, of 2^63 or of 2^64.                                                  *)
(***************************************************************************)
EXTENDS Integers, Sequences, FiniteSets, TLC

\* ------------------------------------------------------------------ bounds
NumKeys == 3            \* keys are 1..NumKeys
MaxLen == 3             \* values are byte strings of length 0..MaxLen
MaxCount == 2           \* new() is tried with max_count in 0..MaxCount
MaxItemWeight == 3      \* ... and max_item_weight in 0..MaxItemWeight,
                        \* and with 2^63 for either

Keys == 1..NumKeys
\* the values tried: n bytes "x" for n in 0..MaxLen, and a second value of
\* weight 1, so that two values of one weight can be told apart
Values == {[i \in 1..n |-> "x"] : n \in 0..MaxLen} \cup {<<"y">>}

\* ------------------------------------------------------------------ memory
null == 0                       \* ptr::null_mut()
Slots == 1..NumKeys             \* heap slots for Box<LruCacheItem>
head_slot == NumKeys + 1        \* the allocation made for head
tail_slot == NumKeys + 2        \* the allocation made for tail

VARIABLES
    cache,              \* HashMap: key -> slot of the Box it owns
    key,                \* slot -> key held (allocated entry nodes only)
    value,              \* slot -> value held (allocated entry nodes only)
    prev,               \* slot -> prev pointer
    next,               \* slot -> next pointer
    max_item_weight,
    max_total_weight,
    current_weight,
    head,               \* pointer to the head sentinel (null: no cache)
    tail,               \* pointer to the tail sentinel
    overflow_checks,    \* build profile: TRUE panics on overflow, FALSE wraps
    status,             \* how the last call ended: "ok" (it returned), "panic"
                        \* (it unwound), "crash" (the process was killed)
    ub,                 \* TRUE once the program has executed undefined behaviour
    last,               \* the last public call and what it returned
    recency,            \* keys by last successful insert, latest first
    made_with           \* the arguments new() was called with

vars == <<cache, key, value, prev, next, max_item_weight, max_total_weight,
          current_weight, head, tail, overflow_checks, status, ub, last, recency,
          made_with>>

\* ------------------------------------------------------------------ usize
\* a <= b, a > b as unsigned machine integers
ULeq(a, b) == IF (a < 0) = (b < 0) THEN a <= b ELSE b < 0
UGt(a, b) == ~ULeq(a, b)
\* a - b underflows; a + b overflows
SubOverflows(a, b) == UGt(b, a)
AddOverflows(a, b) == (a < 0 \/ b < 0) /\ a + b >= 0
\* 2^63, and a * b for a small a >= 0: (2^63 + d) * a is a * d, plus 2^63
\* when a is odd; (2^64 + b) * a is a * b. The product passes 2^64 when one
\* factor is that large and the other is >= 2.
Half == 2^30
Large(b) == b < 0 \/ b >= 2^29
MulOverflows(a, b) == (Large(b) /\ a >= 2) \/ (Large(a) /\ b >= 2)
\* a * b, wrapped: a small number of times 2^63 + d, either way round;
\* the product of two numbers near 2^63 is d * d, plus 2^63 when the two
\* d's add up to an odd number.
UMul(a, b) ==
    IF a >= 2^29 /\ b >= 2^29
    THEN (((a - Half) + (b - Half)) % 2) * Half + (a - Half) * (b - Half)
    ELSE IF b >= 2^29 THEN (a % 2) * Half + a * (b - Half)
    ELSE IF a >= 2^29 THEN (b % 2) * Half + b * (a - Half)
    ELSE a * b

\* impl Weighted for Vec<u8>: the weight of a value is its length
Weight(v) == Len(v)

\* ------------------------------------------------------------------ helpers
None == [tag |-> "None", val |-> <<>>]
Some(v) == [tag |-> "Some", val |-> v]

Restrict(f, S) == [x \in S |-> f[x]]

\* The cache as one record, so that the methods are operators on it.
\* `freed` is local to one call: the chunks the call has returned to the
\* allocator, with the bytes they held when their Box was dropped.
\* `dropped` and `dropped_keys` are local to one call as well: how many
\* times the call has run the destructor of each value (a V) and of each
\* key (a K).
NoMem == [n \in {} |-> null]
Self == [cache |-> cache, key |-> key, value |-> value, prev |-> prev,
         next |-> next, current_weight |-> current_weight, freed |-> NoMem,
         dropped |-> NoMem, dropped_keys |-> NoMem]

\* One more of x in the bag b.
OneMore(b, x) == IF x \in DOMAIN b THEN [b EXCEPT ![x] = @ + 1] ELSE (x :> 1) @@ b
\* A V, or a K, goes out of scope or is dropped in place.
drop_value(s, v) == [s EXCEPT !.dropped = OneMore(@, v)]
drop_key(s, k) == [s EXCEPT !.dropped_keys = OneMore(@, k)]

\* Dropping a Box<LruCacheItem>: the slot leaves the heap. key and value
\* are MaybeUninit fields: dropping the item runs no destructor for them.
free(s, node) ==
    [s EXCEPT !.freed = (node :> [key |-> s.key[node], value |-> s.value[node],
                                  prev |-> s.prev[node], next |-> s.next[node]]) @@ @,
              !.key = Restrict(@, DOMAIN @ \ {node}),
              !.value = Restrict(@, DOMAIN @ \ {node}),
              !.prev = Restrict(@, DOMAIN @ \ {node}),
              !.next = Restrict(@, DOMAIN @ \ {node})]

\* Box::new(LruCacheItem::new(key, value)): the allocator hands out a slot
\* that is not in use (a key has at most one node, so the slot numbered like
\* the key is free); prev and next start null.
alloc(s, k) == CHOOSE n \in Slots \ DOMAIN s.key : n = k
LruCacheItem_new(s, node, k, v) ==
    [s EXCEPT !.key = (node :> k) @@ @, !.value = (node :> v) @@ @,
              !.prev = (node :> null) @@ @, !.next = (node :> null) @@ @]

\* ------------------------------------------------------------------ list
\* detach: two pointer writes, the second reading the node again
detach(s, node) ==
    LET s1 == [s EXCEPT !.next[s.prev[node]] = s.next[node]]
    IN  [s1 EXCEPT !.prev[s1.next[node]] = s1.prev[node]]

\* attach: link the node right after head
attach(s, node) ==
    LET s1 == [s EXCEPT !.next[node] = s.next[head]]
        s2 == [s1 EXCEPT !.prev[node] = head]
        s3 == [s2 EXCEPT !.next[head] = node]
    IN  [s3 EXCEPT !.prev[s3.next[node]] = node]

\* promote, forgotten: the node stays where it is
promote_stays(s, node) == s

promote(s, node) == attach(detach(s, node), node)

\* ------------------------------------------------------------------ methods
\* will_accept, comparing with the budget instead of the per-item limit
will_accept_total(v) == ULeq(Weight(v), max_total_weight)

\* will_accept, admitting every value
will_accept_any(v) == TRUE

will_accept(v) == ULeq(Weight(v), max_item_weight)

\* remove, forgetting to subtract the weight of the value it takes out
remove_keeps_weight(s, k) ==
    IF k \notin DOMAIN s.cache
    THEN [s |-> s, ret |-> None, status |-> "ok"]
    ELSE LET lru_entry == s.cache[k]
             s1 == [s EXCEPT !.cache = Restrict(@, DOMAIN @ \ {k})]
             s2 == detach(s1, lru_entry)
         IN  [s |-> free(s2, lru_entry), ret |-> Some(s2.value[lru_entry]),
              status |-> "ok"]

\* remove: take the Box out of the index, unlink it, move the value out,
\* subtract its weight; the Box is dropped when it goes out of scope.
remove(s, k) ==
    IF k \notin DOMAIN s.cache
    THEN [s |-> s, ret |-> None, status |-> "ok"]
    ELSE LET lru_entry == s.cache[k]
             s1 == [s EXCEPT !.cache = Restrict(@, DOMAIN @ \ {k})]
             s2 == detach(s1, lru_entry)
             v == s2.value[lru_entry]
             s3 == free(s2, lru_entry)
         IN  IF overflow_checks /\ SubOverflows(s3.current_weight, Weight(v))
             THEN [s |-> drop_value(s3, v), ret |-> None, status |-> "panic"]
             ELSE [s |-> [s3 EXCEPT !.current_weight = @ - Weight(v)],
                   ret |-> Some(v), status |-> "ok"]

\* The while loop of eject. cw is eject's own running weight, evicted the
\* keys removed so far, oldest first.
RECURSIVE eject_loop(_, _, _, _)

\* The loop body once remove(lru_key) has returned r: unwrap(), then the
\* subtraction. v, the value taken out, is dropped when the body is left,
\* by its end or by a panic.
eject_removed(r, lru_key, cw, v, evicted) ==
    IF r.status # "ok"
    THEN [s |-> r.s, status |-> r.status, ub |-> FALSE,
          evicted |-> Append(evicted, lru_key)]
    ELSE IF r.ret.tag = "None"
    THEN [s |-> r.s, status |-> "panic", ub |-> FALSE, evicted |-> evicted]
    ELSE IF overflow_checks /\ SubOverflows(cw, Weight(r.ret.val))
    THEN [s |-> drop_value(r.s, r.ret.val), status |-> "panic", ub |-> FALSE,
          evicted |-> Append(evicted, lru_key)]
    ELSE eject_loop(drop_value(r.s, r.ret.val), cw - Weight(r.ret.val), v,
                    Append(evicted, lru_key))

eject_loop(s, cw, v, evicted) ==
    IF overflow_checks /\ AddOverflows(cw, Weight(v))
    THEN [s |-> s, status |-> "panic", ub |-> FALSE, evicted |-> evicted]
    ELSE IF ~UGt(cw + Weight(v), max_total_weight)
    THEN [s |-> s, status |-> "ok", ub |-> FALSE, evicted |-> evicted]
    ELSE IF s.prev[tail] \notin DOMAIN s.key
    THEN \* tail.prev is the head sentinel, whose key was never
         \* initialised: the list is empty and the loop goes on.
         [s |-> s, status |-> "uninit", ub |-> TRUE, evicted |-> evicted]
    ELSE eject_removed(remove(s, s.key[s.prev[tail]]), s.key[s.prev[tail]],
                       cw, v, evicted)

\* eject, making no room: nothing is evicted
eject_nothing(s, v, node_ptr) ==
    [s |-> s, status |-> "ok", ub |-> FALSE, evicted |-> <<>>]

\* eject: node_ptr is null or the node the index holds for the key.
eject(s, v, node_ptr) ==
    IF node_ptr = null
    THEN eject_loop(s, s.current_weight, v, <<>>)
    ELSE IF overflow_checks /\ SubOverflows(s.current_weight, Weight(s.value[node_ptr]))
    THEN [s |-> s, status |-> "panic", ub |-> FALSE, evicted |-> <<>>]
    ELSE eject_loop(s, s.current_weight - Weight(s.value[node_ptr]), v, <<>>)


\* insert's existing-key branch, adding the new weight without taking off
\* the old one
insert_existing_adds(s, node_ptr, v, evicted) ==
    LET s1 == [s EXCEPT !.current_weight = @ + Weight(v)]
        s2 == [s1 EXCEPT !.value[node_ptr] = v]
    IN  [s |-> promote(s2, node_ptr), ret |-> "Ok", status |-> "ok",
         ub |-> FALSE, evicted |-> evicted]

\* The existing-key branch of insert when node_ptr still points into the heap.
\* The assignment to (*node_ptr).value replaces a MaybeUninit<V>: no
\* destructor runs for the value that was there.
insert_existing(s, node_ptr, v, evicted) ==
    LET old == Weight(s.value[node_ptr]) IN
    IF overflow_checks /\ (SubOverflows(s.current_weight, old)
                           \/ AddOverflows(s.current_weight - old, Weight(v)))
    THEN [s |-> s, ret |-> "unwind", status |-> "panic", ub |-> FALSE, evicted |-> evicted]
    ELSE LET s1 == [s EXCEPT !.current_weight = (@ - old) + Weight(v)]
             s2 == [s1 EXCEPT !.value[node_ptr] = v]
         IN  [s |-> promote(s2, node_ptr), ret |-> "Ok", status |-> "ok",
              ub |-> FALSE, evicted |-> evicted]

\* What the key field of a freed chunk can hold: the key left there, or
\* what the allocator has written over it, any other key or a bit pattern
\* that is no key a caller has used (NumKeys + 1 stands for those).
FreedKeys == Keys \cup {NumKeys + 1}

\* What a read through a dangling pointer can produce: the process faults,
\* or it goes on with some weight read from the freed chunk (the bytes left
\* there, or whatever the allocator has put in their place) and with some
\* key in the chunk's key field.
UafOutcomes ==
    [kind : {"read"}, weight : 0..MaxLen, key : FreedKeys]
        \cup {[kind |-> "fault", weight |-> 0, key |-> 0]}

\* The existing-key branch of insert when eject has removed the key's own
\* node: node_ptr dangles, and every access through it is a use after free.
\* The links are read as they were when the Box was dropped; the key field
\* of the node holds whatever the allocator has left in it. The key fields
\* of the other freed chunks are given no value: nothing reads them.
insert_dangling(s, node_ptr, v, evicted, uaf) ==
    IF uaf.kind = "fault"
    THEN [s |-> s, ret |-> "abort", status |-> "crash", ub |-> TRUE, evicted |-> evicted]
    ELSE IF overflow_checks /\ SubOverflows(s.current_weight, uaf.weight)
    THEN [s |-> s, ret |-> "unwind", status |-> "panic", ub |-> TRUE, evicted |-> evicted]
    ELSE LET chunks == DOMAIN s.freed
             mem == [s EXCEPT !.key = (node_ptr :> uaf.key) @@ @,
                              !.value = [n \in chunks |-> s.freed[n].value] @@ @,
                              !.prev = [n \in chunks |-> s.freed[n].prev] @@ @,
                              !.next = [n \in chunks |-> s.freed[n].next] @@ @]
             s1 == [mem EXCEPT !.current_weight = (@ - uaf.weight) + Weight(v)]
             s2 == [s1 EXCEPT !.value[node_ptr] = v]
         IN  [s |-> promote(s2, node_ptr), ret |-> "Ok", status |-> "ok",
              ub |-> TRUE, evicted |-> evicted]

\* The new-key branch of insert.
insert_new(s, k, v, evicted) ==
    IF overflow_checks /\ AddOverflows(s.current_weight, Weight(v))
    THEN [s |-> s, ret |-> "unwind", status |-> "panic", ub |-> FALSE, evicted |-> evicted]
    ELSE LET s1 == [s EXCEPT !.current_weight = @ + Weight(v)]
             node_ptr == alloc(s1, k)
             s2 == LruCacheItem_new(s1, node_ptr, k, v)
             s3 == attach(s2, node_ptr)
         IN  [s |-> [s3 EXCEPT !.cache = (k :> node_ptr) @@ @], ret |-> "Ok",
              status |-> "ok", ub |-> FALSE, evicted |-> evicted]

\* insert after eject has returned e.
insert_ejected(e, k, v, node_ptr, uaf) ==
    IF e.status = "uninit"
    THEN \* remove() is called with the uninitialised key of a
         \* sentinel: the lookup finds nothing and unwrap() panics,
         \* or reading the key faults.
         IF uaf.kind = "fault"
         THEN [s |-> e.s, ret |-> "abort", status |-> "crash", ub |-> TRUE,
               evicted |-> e.evicted]
         ELSE [s |-> e.s, ret |-> "unwind", status |-> "panic", ub |-> TRUE,
               evicted |-> e.evicted]
    ELSE IF e.status # "ok"
    THEN [s |-> e.s, ret |-> "unwind", status |-> e.status, ub |-> e.ub,
          evicted |-> e.evicted]
    ELSE IF node_ptr = null THEN insert_new(e.s, k, v, e.evicted)
    ELSE IF node_ptr \in DOMAIN e.s.value
    THEN insert_existing(e.s, node_ptr, v, e.evicted)
    ELSE insert_dangling(e.s, node_ptr, v, e.evicted, uaf)

\* The index entry of k, as insert looks it up before eject.
lookup(s, k) == IF k \in DOMAIN s.cache THEN s.cache[k] ELSE null

insert_body(s, k, v, uaf) ==
    IF ~will_accept(v)
    THEN [s |-> s, ret |-> "ExceedsMaximumWeight", status |-> "ok", ub |-> FALSE,
          evicted |-> <<>>]
    ELSE insert_ejected(eject(s, v, lookup(s, k)), k, v, lookup(s, k), uaf)

\* insert owns key and value: what it has not moved into a node when it is
\* left (by return or by unwinding) is dropped. The value is moved in both
\* branches that return Ok, the key only in the new-key branch.
Unmoved(r) == r.ret \in {"ExceedsMaximumWeight", "unwind"}
leave_insert(r, present, k, v) ==
    [r EXCEPT !.s = IF Unmoved(r) THEN drop_key(drop_value(@, v), k)
                    ELSE IF r.ret = "Ok" /\ present THEN drop_key(@, k)
                    ELSE @]
insert(s, k, v, uaf) ==
    leave_insert(insert_body(s, k, v, uaf), k \in DOMAIN s.cache, k, v)

\* get, promoting the entry it finds as a touch-promotes LRU would
get_promotes(s, k) ==
    IF k \in DOMAIN s.cache
    THEN [s |-> promote(s, s.cache[k]), ret |-> Some(s.value[s.cache[k]])]
    ELSE [s |-> s, ret |-> None]

\* get takes &mut self: it hands back the cache it leaves behind as well.
get(s, k) ==
    [s |-> s, ret |-> IF k \in DOMAIN s.cache THEN Some(s.value[s.cache[k]]) ELSE None]

contains_key(s, k) == k \in DOMAIN s.cache
len(s) == Cardinality(DOMAIN s.cache)
is_empty(s) == len(s) = 0
weight(s) == s.current_weight

\* Drop for LruWeightedCache: key and value of every entry of the index are
\* dropped in place; then head and tail are reboxed and dropped, and the
\* index drops its Boxes. No destructor runs for a sentinel's key or value.
RECURSIVE drop_entries(_, _)
drop_entries(s, ks) ==
    IF ks = {} THEN s
    ELSE LET k == CHOOSE x \in ks : TRUE
             e == s.cache[k]
         IN  drop_entries(drop_value(drop_key(s, s.key[e]), s.value[e]), ks \ {k})
drop(s) ==
    [drop_entries(s, DOMAIN s.cache) EXCEPT !.cache = NoMem, !.key = NoMem,
        !.value = NoMem, !.prev = NoMem, !.next = NoMem]

\* ------------------------------------------------------------------ new
\* No cache comes back from new: an error, or a panic.
NoCache(ret, st) ==
    [ret |-> ret, status |-> st, max_item_weight |-> 0, max_total_weight |-> 0,
     head |-> null, tail |-> null, prev |-> NoMem, next |-> NoMem]

\* new(max_count, max_item_weight): an error and no cache when either is 0.
new(max_count, item_weight) ==
    IF max_count = 0 \/ item_weight = 0
    THEN NoCache("NonsenseParameters", "ok")
    ELSE IF overflow_checks /\ MulOverflows(item_weight, max_count)
    THEN NoCache("unwind", "panic")
    ELSE [ret |-> "Ok", status |-> "ok", max_item_weight |-> item_weight,
          max_total_weight |-> UMul(item_weight, max_count),
          head |-> head_slot, tail |-> tail_slot,
          prev |-> (head_slot :> null) @@ (tail_slot :> head_slot),
          next |-> (head_slot :> tail_slot) @@ (tail_slot :> null)]

\* last.present: whether the key was in the index when the call was made.
\* last.attempts: how many times the loop of eject went round.
NoCall == [op |-> "new", key |-> 0, value |-> <<>>, present |-> FALSE, ret |-> "Ok",
           val |-> <<>>, evicted |-> <<>>, attempts |-> 0,
           dropped |-> NoMem, dropped_keys |-> NoMem]

\* The arguments new() is tried with: the small ones, and 2^63 for the
\* number of entries and for the weight of one.
Counts == 0..MaxCount \cup {Half}
ItemWeights == 0..MaxItemWeight \cup {Half}

Init ==
    /\ overflow_checks \in BOOLEAN
    /\ \E max_count \in Counts, item_weight \in ItemWeights :
        LET c == new(max_count, item_weight) IN
        /\ made_with = [max_count |-> max_count, max_item_weight |-> item_weight]
        /\ cache = NoMem
        /\ key = NoMem
        /\ value = NoMem
        /\ prev = c.prev
        /\ next = c.next
        /\ max_item_weight = c.max_item_weight
        /\ max_total_weight = c.max_total_weight
        /\ current_weight = 0
        /\ head = c.head
        /\ tail = c.tail
        /\ status = c.status
        /\ ub = FALSE
        /\ last = [NoCall EXCEPT !.ret = c.ret]
        /\ recency = <<>>

\* ------------------------------------------------------------------ actions
\* A call can be made on a cache that exists, in a process that is running
\* and whose behaviour is still defined. A panic does not end the cache: it
\* is dropped while the stack unwinds, or used again once the panic has been
\* caught.
Callable == head # null /\ status # "crash" /\ ~ub

SelectSeq2(seq, S) == SelectSeq(seq, LAMBDA x : x \in S)

Commit(s) ==
    /\ cache' = s.cache
    /\ key' = s.key
    /\ value' = s.value
    /\ prev' = s.prev
    /\ next' = s.next
    /\ current_weight' = s.current_weight
    /\ UNCHANGED <<max_item_weight, max_total_weight, head, tail, overflow_checks,
                   made_with>>

\* insert(k, v) is about to use a dangling node_ptr: the value is admitted,
\* the key has a node, and eject removes that node.
Freed(e, node_ptr) == e.status = "ok" /\ node_ptr \notin DOMAIN e.s.value
Dangles(s, k, v) ==
    /\ will_accept(v)
    /\ k \in DOMAIN s.cache
    /\ Freed(eject(s, v, s.cache[k]), s.cache[k])

\* insert(k, v) is about to evict from an empty list: the value is admitted
\* and the loop of eject has not made room when no entry is left.
EvictsFromEmpty(s, k, v) ==
    /\ will_accept(v)
    /\ eject(s, v, lookup(s, k)).status = "uninit"

NoUaf == [kind |-> "read", weight |-> 0, key |-> 0]
\* The outcomes of the undefined behaviour insert(k, v) runs into, if any.
Outcomes(s, k, v) ==
    IF Dangles(s, k, v) THEN UafOutcomes
    ELSE IF EvictsFromEmpty(s, k, v) THEN [kind : {"fault", "read"}, weight : {0}, key : {0}]
    ELSE {NoUaf}

\* insert(k, v) has ended with r.
Inserted(r, k, v) ==
    /\ Commit(r.s)
    /\ status' = r.status
    /\ ub' = r.ub
    /\ last' = [op |-> "insert", key |-> k, value |-> v,
                present |-> contains_key(Self, k), ret |-> r.ret,
                val |-> <<>>, evicted |-> r.evicted,
                attempts |-> Len(r.evicted)
                             + IF EvictsFromEmpty(Self, k, v) THEN 1 ELSE 0,
                dropped |-> r.s.dropped, dropped_keys |-> r.s.dropped_keys]
    /\ recency' = IF r.ret = "Ok"
                  THEN <<k>> \o SelectSeq2(recency, Keys \ ({k} \cup {r.evicted[i] : i \in DOMAIN r.evicted}))
                  ELSE SelectSeq2(recency, Keys \ {r.evicted[i] : i \in DOMAIN r.evicted})

Insert(k, v, uaf) ==
    /\ Callable
    /\ Inserted(insert(Self, k, v, uaf), k, v)

\* get(k) has returned r.
Got(r, k) ==
    /\ Commit(r.s)
    /\ last' = [op |-> "get", key |-> k, value |-> <<>>,
                present |-> contains_key(Self, k), ret |-> r.ret.tag,
                val |-> r.ret.val, evicted |-> <<>>, attempts |-> 0,
                dropped |-> r.s.dropped, dropped_keys |-> r.s.dropped_keys]
    /\ status' = "ok"
    /\ UNCHANGED <<ub, recency>>

Get(k) ==
    /\ Callable
    /\ Got(get(Self, k), k)

\* remove(k) has ended with r.
Removed(r, k) ==
    /\ Commit(r.s)
    /\ status' = r.status
    /\ last' = [op |-> "remove", key |-> k, value |-> <<>>,
                present |-> contains_key(Self, k),
                ret |-> IF r.status = "ok" THEN r.ret.tag ELSE "unwind",
                val |-> r.ret.val, evicted |-> <<>>, attempts |-> 0,
                dropped |-> r.s.dropped, dropped_keys |-> r.s.dropped_keys]
    /\ recency' = SelectSeq2(recency, Keys \ {k})
    /\ UNCHANGED ub

Remove(k) ==
    /\ Callable
    /\ Removed(remove(Self, k), k)

\* The cache goes out of scope.
Dropped(s) ==
    /\ cache' = s.cache
    /\ key' = s.key
    /\ value' = s.value
    /\ prev' = s.prev
    /\ next' = s.next
    /\ head' = null
    /\ tail' = null
    /\ current_weight' = 0
    /\ last' = [NoCall EXCEPT !.op = "drop", !.dropped = s.dropped,
                              !.dropped_keys = s.dropped_keys]
    /\ recency' = <<>>
    /\ status' = "ok"
    /\ UNCHANGED <<max_item_weight, max_total_weight, overflow_checks, ub,
                   made_with>>

Drop ==
    /\ Callable
    /\ Dropped(drop(Self))

Next ==
    \/ /\ Callable
       /\ \E k \in Keys, v \in Values :
             \E uaf \in Outcomes(Self, k, v) : Insert(k, v, uaf)
    \/ \E k \in Keys : Get(k)
    \/ \E k \in Keys : Remove(k)
    \/ Drop

Spec == Init /\ [][Next]_vars

\* ------------------------------------------------------------------ views
\* The nodes met walking next from head up to tail (at most fuel of them).
RECURSIVE walk(_, _, _, _)
walk(nx, n, t, fuel) ==
    IF n = t \/ fuel = 0 \/ n \notin DOMAIN nx THEN <<>>
    ELSE <<n>> \o walk(nx, nx[n], t, fuel - 1)

ListNodes == IF head = null THEN <<>> ELSE walk(next, next[head], tail, NumKeys + 1)
\* The keys of the recency list, most recently used first.
ListKeys == [i \in DOMAIN ListNodes |-> key[ListNodes[i]]]

RECURSIVE SumWeights(_)
SumWeights(ks) ==
    IF ks = {} THEN 0
    ELSE LET k == CHOOSE x \in ks : TRUE
         IN  Weight(value[cache[k]]) + SumWeights(ks \ {k})

\* The keys held, and the weight they add up to.
Held == DOMAIN cache
HeldWeight == SumWeights(Held)

\* A public call has returned to its caller.
Returned == head # null /\ status = "ok"

\* The values held, by key.
Contents == [k \in Held |-> value[cache[k]]]

\* The weight of the first j entries of ks, as held before the call.
RECURSIVE EvictedWeight(_, _)
EvictedWeight(ks, j) ==
    IF j = 0 THEN 0 ELSE Weight(Contents[ks[j]]) + EvictedWeight(ks, j - 1)


\* ------------------------------------------------------------------ claims
IsSet(seq) == \A i, j \in DOMAIN seq : seq[i] = seq[j] => i = j
Range(f) == {f[x] : x \in DOMAIN f}

\* C1: after every completed public call, weight() equals the sum of the
\* weights of exactly the values the index holds.
C1_WeightIsSumOfHeld == Returned => weight(Self) = HeldWeight

\* insert(k, v) has gone through the node eject freed and has read, for the
\* weight of the old value, the length that was stored there.
ReadStale(k) ==
    /\ last'.op = "insert" /\ k \in Held
    /\ weight(Self)' = ((weight(Self) - EvictedWeight(last'.evicted, Len(last'.evicted)))
                          - Weight(Contents[k])) + Weight(last'.value)

\* C2: after every completed public call, weight() is at most
\* max_item_weight * max_count, the budget new has computed: after new, and
\* after every insert, get and remove that returns, whatever was evicted.
\* Stated for the calls without undefined behaviour and for those whose
\* read through a freed node finds the bytes that were left there.
C2_WeightWithinBudget ==
    /\ Returned => ULeq(weight(Self), max_total_weight)
    /\ [][\A k \in Keys :
             (/\ last'.key = k /\ head' # null /\ status' = "ok"
              /\ ub' => ReadStale(k))
             => ULeq(weight(Self)', max_total_weight)]_vars

\* An insert has evicted to make room and has filled the budget to the
\* last unit, with more than one entry held.
C2_Witness ==
    /\ last.op = "insert" /\ last.ret = "Ok" /\ ~ub /\ Returned
    /\ Len(last.evicted) >= 1 /\ len(Self) >= 2
    /\ max_total_weight >= 2 /\ weight(Self) = max_total_weight

\* C3: between public calls the index and the recency list are in bijection:
\* the keys of the index are the keys met walking the list, each indexed
\* node is in the list exactly once, and every list node is in the index.
C3_IndexListBijection ==
    Returned => /\ Range(ListKeys) = Held
                /\ IsSet(ListNodes)
                /\ IsSet(ListKeys)
                /\ Range(ListNodes) = Range(cache)
                /\ \A k \in Held : key[cache[k]] = k

\* C4: after insert(k, v) returns Ok, contains_key(k) is true and get(k)
\* returns v.
C4_InsertedIsHeld ==
    (last.op = "insert" /\ last.ret = "Ok" /\ Returned)
        => /\ contains_key(Self, last.key)
           /\ get(Self, last.key).ret = Some(last.value)


\* What a caller can observe of the cache: the values by key, the recency
\* order, len() and weight().
Observable == <<Contents, ListKeys, len(Self), weight(Self)>>

\* seq without the elements of S
Without(seq, S) == SelectSeq2(seq, Range(seq) \ S)

\* C5: insert(k, v) with weight(v) > max_item_weight returns
\* Err(ExceedsMaximumWeight) and changes nothing: keys, values, recency
\* order, len() and weight() stay as they were, also when k is present.
C5_RejectedInsertChangesNothing ==
    [][(last'.op = "insert" /\ UGt(Weight(last'.value), max_item_weight))
         => /\ last'.ret = "ExceedsMaximumWeight"
            /\ status' = "ok"
            /\ Observable' = Observable
            /\ UNCHANGED <<cache, key, value, prev, next, current_weight>>]_vars

C5_Witness ==
    /\ last.op = "insert" /\ last.ret = "ExceedsMaximumWeight"
    /\ last.present /\ len(Self) >= 2 /\ weight(Self) > 0

\* C6: on a cache that new has returned, no call fails except insert of an
\* over-weight value: every call runs to completion, and insert of an
\* admissible value returns Ok. Stated for
\* the runs in which no undefined behaviour has been executed, so that a
\* violation is a failure the code itself raises (a panic) and not a fault
\* the platform may or may not deliver.
C6_NoCallFails ==
    (~ub /\ last.op # "new")
        => /\ status = "ok"
           /\ (last.op = "insert" /\ will_accept(last.value)) => last.ret = "Ok"

\* C7: eviction is least-recently-used first: every entry an insert evicts
\* was inserted or replaced less recently than every entry that is still in
\* the cache after it.
Later(a, b) == \E i, j \in DOMAIN recency : i < j /\ recency[i] = a /\ recency[j] = b
C7_EvictsLeastRecentFirst ==
    [][last'.op = "insert"
         => /\ Range(last'.evicted) \ {last'.key} = (Held \ Held') \ {last'.key}
            /\ \A e \in Range(last'.evicted), s \in Held' \ {last'.key} : Later(s, e)]_vars

C7_Witness ==
    /\ last.op = "insert" /\ last.ret = "Ok" /\ ~ub
    /\ Len(last.evicted) >= 1 /\ len(Self) >= 2

\* C8: get changes nothing: the index, the recency order, len() and weight()
\* are as before, for a key that is present and for one that is absent, so a
\* read does not save an entry from eviction.
C8_GetChangesNothing ==
    [][last'.op = "get"
         => /\ Observable' = Observable
            /\ UNCHANGED <<cache, key, value, prev, next, current_weight, ub>>
            /\ status' = "ok"
            /\ last'.ret = (IF last'.key \in Held THEN "Some" ELSE "None")
            /\ last'.key \in Held => last'.val = Contents[last'.key]]_vars

C8_Witness ==
    /\ last.op = "get" /\ last.ret = "Some"
    /\ len(Self) >= 2 /\ ListKeys[Len(ListKeys)] = last.key

\* C9, as claimed: re-inserting a key that is present replaces its value,
\* moves weight() by the difference of the two weights and keeps len().
\* Stated for the calls that return Ok with the key's node intact, so that a
\* violation does not rest on the use after free of insert_dangling.
C9_ReinsertKeepsLen ==
    [][(last'.op = "insert" /\ last'.key \in Held /\ will_accept(last'.value)
          /\ last'.ret = "Ok" /\ ~ub')
         => /\ last'.key \in Held' /\ Contents'[last'.key] = last'.value
            /\ weight(Self)' = (weight(Self) - Weight(Contents[last'.key]))
                                  + Weight(last'.value)
            /\ len(Self)' = len(Self)]_vars

\* C9, amended: when the new value fits without eviction, that is when
\* weight() minus the old value's weight plus weight(v) is at most
\* max_total_weight, re-inserting a key that is present replaces its value,
\* moves weight() by the difference of the two weights and keeps len().
Fits(k, v) ==
    ULeq((weight(Self) - Weight(Contents[k])) + Weight(v), max_total_weight)
C9_ReinsertThatFitsKeepsLen ==
    [][(last'.op = "insert" /\ last'.key \in Held /\ will_accept(last'.value)
          /\ Fits(last'.key, last'.value))
         => /\ last'.ret = "Ok" /\ status' = "ok" /\ ~ub'
            /\ last'.key \in Held' /\ Contents'[last'.key] = last'.value
            /\ weight(Self)' = (weight(Self) - Weight(Contents[last'.key]))
                                  + Weight(last'.value)
            /\ len(Self)' = len(Self)
            /\ Held' = Held]_vars

C9_Witness ==
    /\ last.op = "insert" /\ last.present /\ last.ret = "Ok" /\ ~ub
    /\ last.evicted = <<>> /\ len(Self) >= 2
    /\ weight(Self) = max_total_weight /\ Weight(last.value) >= 2

\* C10: remove(k) of a present key returns its value; afterwards the key is
\* gone, len() is one less, weight() is less by that value's weight, and
\* every other entry keeps its value and its place in the recency order.
\* remove(k) of an absent key returns None and changes nothing.
C10_RemoveTakesOneEntry ==
    [][last'.op = "remove"
         => /\ status' = "ok" /\ ~ub'
            /\ IF last'.key \in Held
               THEN /\ last'.ret = "Some" /\ last'.val = Contents[last'.key]
                    /\ \A k \in Keys : k = last'.key =>
                          /\ ~contains_key(Self, k)'
                          /\ get(Self, k).ret' = None
                    /\ len(Self)' = len(Self) - 1
                    /\ weight(Self)' = weight(Self) - Weight(Contents[last'.key])
                    /\ Contents' = Restrict(Contents, Held \ {last'.key})
                    /\ ListKeys' = Without(ListKeys, {last'.key})
               ELSE /\ last'.ret = "None"
                    /\ Observable' = Observable
                    /\ UNCHANGED <<cache, key, value, prev, next, current_weight>>]_vars

C10_Witness ==
    /\ last.op = "remove" /\ last.ret = "Some" /\ Weight(last.val) >= 1
    /\ len(Self) >= 2


\* C11: new(max_count, max_item_weight) returns Err(NonsenseParameters) and
\* no cache whenever max_count = 0 or max_item_weight = 0; when both are at
\* least 1 it returns an empty cache: len() = 0, weight() = 0, is_empty(),
\* head and tail linked to each other.
C11_NewRefusesZeroElseEmpty ==
    last.op = "new" =>
        IF made_with.max_count = 0 \/ made_with.max_item_weight = 0
        THEN last.ret = "NonsenseParameters" /\ head = null /\ tail = null
        ELSE /\ last.ret = "Ok" /\ status = "ok"
             /\ len(Self) = 0 /\ weight(Self) = 0 /\ is_empty(Self)
             /\ head # null /\ tail # null /\ head # tail
             /\ next[head] = tail /\ prev[tail] = head


\* C12: the eviction loop run by insert terminates after removing at most
\* all entries of the cache: for every admissible value, for a new key and
\* for a present one, it goes round at most once per entry held before the
\* call, each round removes an entry, and it never goes round on an empty
\* recency list.
C12_EvictionStopsAtEmpty ==
    [][last'.op = "insert" /\ last'.ret # "ExceedsMaximumWeight" =>
         /\ last'.attempts <= len(Self)
         /\ last'.attempts = Len(last'.evicted)
         /\ ~EvictsFromEmpty(Self, last'.key, last'.value)]_vars


\* C13: in every reachable state, every value held in the cache (by a node
\* of the index or of the recency list) has weight <= max_item_weight.
C13_HeldValuesAreAdmissible ==
    /\ \A k \in Held : cache[k] \in DOMAIN value
    /\ \A n \in DOMAIN value : ULeq(Weight(value[n]), max_item_weight)

\* A replacement has stored a value of exactly max_item_weight beside
\* another entry, and an over-weight value exists that was not stored.
C13_Witness ==
    /\ last.op = "insert" /\ last.ret = "Ok" /\ last.present /\ Returned /\ ~ub
    /\ len(Self) >= 2
    /\ Weight(last.value) = max_item_weight
    /\ get(Self, last.key).ret = Some(last.value)
    /\ \E v \in Values : ~will_accept(v)


\* The weight the held values and v add up to once v is stored for key k.
SumWith(k, v) == SumWeights(Held \ {k}) + Weight(v)
\* x <= w * c, the product taken in the integers, for a small x and w, c >= 1:
\* a product with a factor of 2^63 is above every sum of a few small weights.
AtMostProduct(x, w, c) == IF Large(w) \/ Large(c) THEN TRUE ELSE x <= w * c

\* C14: the cache is bounded by weight, not by entry count: in a cache
\* built with (max_count = c, max_item_weight = w), an insert of a value of
\* weight <= w that makes the number of entries c or more and brings their
\* weights to at most c * w in all returns Ok and evicts nothing: c
\* values of weight w are held together, and so are n > c entries whose
\* weights sum to at most c * w.
C14_BoundedByWeightNotCount ==
    [][\A k \in Keys, v \in Values :
          (/\ last'.op = "insert" /\ last'.key = k /\ last'.value = v
           /\ Weight(v) <= made_with.max_item_weight
           /\ Cardinality(Held \cup {k}) >= made_with.max_count
           /\ AtMostProduct(SumWith(k, v), made_with.max_item_weight,
                            made_with.max_count))
          => /\ last'.ret = "Ok" /\ status' = "ok" /\ ~ub'
             /\ last'.evicted = <<>>
             /\ Held' = Held \cup {k}
             /\ len(Self)' = Cardinality(Held \cup {k})]_vars


\* C15: an insert on a key that is present never evicts that key's own
\* entry: whatever its place in the recency order, the node found by the
\* lookup is not among the evicted, and when insert writes the value the
\* node is still the one the index holds for the key and still in the
\* list, so that no freed node is accessed. Stated for the caches whose
\* budget is the product of the arguments of new, so that a violation does
\* not rest on a wrapped budget.
C15_ReinsertKeepsOwnEntry ==
    [][\A k \in Keys :
          (last'.op = "insert" /\ last'.key = k /\ k \in Held
             /\ will_accept(last'.value) /\ ~Large(made_with.max_count)
             /\ ~Large(made_with.max_item_weight))
          => /\ k \notin Range(last'.evicted)
             /\ ~Dangles(Self, k, last'.value)
             /\ last'.ret = "Ok" => /\ ~ub'
                                    /\ k \in Held' /\ cache'[k] = cache[k]
                                    /\ cache[k] \in Range(ListNodes')]_vars


\* weight() minus the weight of the value held for k, if any.
Projected(k) == weight(Self) - (IF k \in Held THEN Weight(Contents[k]) ELSE 0)

\* C16: insert evicts the minimum number of entries: with P = weight()
\* minus the weight of the key's own value (if present), it removes
\* least-recently-used entries one at a time, from the tail, and stops at
\* the first point where P - (sum of evicted weights) + weight(v) <=
\* max_total_weight; if P + weight(v) <= max_total_weight at the start, no
\* entry is evicted.
C16_EvictsMinimum ==
    [][\A k \in Keys, v \in Values :
          (last'.op = "insert" /\ last'.key = k /\ last'.value = v /\ will_accept(v))
          => LET ev == last'.evicted
                 After(j) == (Projected(k) - EvictedWeight(ev, j)) + Weight(v)
             IN  /\ \A i \in 1..Len(ev) : ev[i] = ListKeys[Len(ListKeys) + 1 - i]
                 /\ \A j \in 0..(Len(ev) - 1) : After(j) > max_total_weight
                 /\ After(Len(ev)) <= max_total_weight]_vars


\* C17: after every insert(k, v) that returns Ok, for a new key and for a
\* present one, k's entry is the most recently used one (the node the index
\* holds for k is the successor of head), and the other entries that are
\* still held are in the same relative recency order as before the call.
C17_InsertedIsMostRecent ==
    [][\A k \in Keys :
          (last'.op = "insert" /\ last'.key = k /\ last'.ret = "Ok")
          => /\ k \in Held' /\ cache'[k] = next'[head]
             /\ ListKeys' # <<>> /\ ListKeys'[1] = k
             /\ Without(ListKeys', {k})
                  = Without(ListKeys, {k} \cup Range(last'.evicted))]_vars


\* The nodes met walking prev from tail back to head (at most fuel of them).
ListNodesBack == IF tail = null THEN <<>> ELSE walk(prev, prev[tail], head, NumKeys + 1)
Reverse(seq) == [i \in DOMAIN seq |-> seq[Len(seq) + 1 - i]]

\* C18: between public calls the recency list is a well-formed doubly
\* linked chain bounded by the sentinels: following next from head reaches
\* tail after visiting each live entry once, following prev from tail
\* visits the same entries in reverse order, n.next.prev = n and
\* n.prev.next = n for every node n of the chain, the sentinels are not in
\* the index, and when the cache is empty head.next = tail and
\* tail.prev = head.
C18_ListIsWellFormed ==
    Returned =>
        /\ IsSet(ListNodes)
        /\ Range(ListNodes) = Range(cache)
        /\ Len(ListNodes) = len(Self)
        /\ ListNodesBack = Reverse(ListNodes)
        /\ \A n \in Range(ListNodes) \cup {head} :
              n \in DOMAIN next /\ next[n] \in DOMAIN prev /\ prev[next[n]] = n
        /\ \A n \in Range(ListNodes) \cup {tail} :
              n \in DOMAIN prev /\ prev[n] \in DOMAIN next /\ next[prev[n]] = n
        /\ Range(ListNodes) \subseteq DOMAIN key
        /\ head \notin Range(cache) /\ tail \notin Range(cache)
        /\ prev[head] = null /\ next[tail] = null
        /\ is_empty(Self) => next[head] = tail /\ prev[tail] = head


\* C19: no weight subtraction underflows: for every admissible insert, the
\* projected weight of the eviction loop stays >= 0 after the key's own
\* weight and each evicted entry's weight are taken off, current_weight is
\* at least the old weight taken off it in the replacement branch, and
\* current_weight is at least the weight remove takes off it.
C19_NoSubtractionUnderflows ==
    [][\A k \in Keys :
          /\ (last'.op = "insert" /\ last'.key = k /\ will_accept(last'.value))
             => LET ev == last'.evicted IN
                /\ \A j \in 0..Len(ev) : Projected(k) - EvictedWeight(ev, j) >= 0
                /\ (k \in Held /\ k \notin Range(ev))
                   => weight(Self) - EvictedWeight(ev, Len(ev)) >= Weight(Contents[k])
          /\ (last'.op = "remove" /\ last'.key = k /\ k \in Held)
             => weight(Self) >= Weight(Contents[k])]_vars


\* How many of x the bag b holds, how many entries hold the value x, and
\* how many of x the last call was given and has handed back to its caller.
Count(b, x) == IF x \in DOMAIN b THEN b[x] ELSE 0
HeldCopies(x) == Cardinality({k \in Held : Contents[k] = x})
Passed(x) == IF last.op = "insert" /\ last.value = x THEN 1 ELSE 0
Handed(x) == IF last.op = "remove" /\ last.ret = "Some" /\ last.val = x THEN 1 ELSE 0

\* C20: every value the cache stops holding is released exactly once or
\* handed back to the caller: over every call, the values held before and
\* the value passed in are the values held after, the values dropped (once
\* each) and the value returned, so that the old value of a replaced key is
\* dropped by that insert, an evicted value is dropped once and a removed
\* one is returned and not dropped; at teardown the value and the key of
\* each live entry are dropped exactly once and nothing else is. Stated for
\* the calls without undefined behaviour, so that a violation does not rest
\* on the use after free of insert_dangling.
C20_ReleasedExactlyOnce ==
    [][~ub' =>
         /\ \A x \in Values :
               HeldCopies(x) + Passed(x)'
                  = HeldCopies(x)' + Count(last'.dropped, x) + Handed(x)'
         /\ last'.op = "drop"
               => \A k \in Keys :
                     Count(last'.dropped_keys, k) = (IF k \in Held THEN 1 ELSE 0)]_vars

====
